---- MODULE Spec2Model ----
(***************************************************************************)
(* Model of the last2hours skill library: the disk-backed TTL cache and    *)
(* the preference ("model selection") cache of scripts/lib/cache.py, the   *)
(* date classification of scripts/lib/dates.py and the hard date filter of *)
(* scripts/lib/normalize.py.                                               *)
(*                                                                         *)
(* Time is counted in whole hours.  A cache file is a record               *)
(*   [kind, data, mtime]                                                   *)
(* where kind is "absent", "json" (a complete JSON document), "truncated"  *)
(* (what open(path, 'w') followed by a failed write leaves behind) or      *)
(* "badbytes" (bytes that do not decode as text, which only something      *)
(* other than this library can have put there).                            *)
(***************************************************************************)
EXTENDS Integers, Sequences, FiniteSets, TLC

VARIABLES now, dirExists, files, call, ret, hist

vars == <<now, dirExists, files, call, ret, hist>>

(***************************************************************************)
(* Bounds of the model.                                                    *)
(***************************************************************************)
\* how many times the clock may advance in one behaviour
MaxAdvances == 2
\* longest item list handed to the hard filter
MaxItems == 2

(***************************************************************************)
(* Program constants (scripts/lib/cache.py).                               *)
(***************************************************************************)
DEFAULT_TTL_HOURS == 24
MODEL_CACHE_TTL_DAYS == 7
MODEL_CACHE_FILE == "model_selection"

\* cache keys of the per-query entries (16 hex characters in the program)
Keys == {"k1", "k2"}
FileNames == Keys \cup {MODEL_CACHE_FILE}

(***************************************************************************)
(* Python values and JSON documents.  A container is a map from strings to *)
(* strings: a dict is keyed by its keys (written as text, with keyty       *)
(* telling whether they are str or int objects), a list or tuple by its    *)
(* indices.                                                                *)
(***************************************************************************)
EmptyMap == [x \in {} |-> ""]

PyDict(keyty, m) == [ty |-> "dict", keyty |-> keyty, map |-> m]
PyList(m) == [ty |-> "list", keyty |-> "index", map |-> m]
PyTuple(m) == [ty |-> "tuple", keyty |-> "index", map |-> m]
EmptyDict == PyDict("str", EmptyMap)

NoJson == [jt |-> "none", map |-> EmptyMap]

\* json.dump: a dict becomes an object whose keys are all strings (an int
\* key is written as its decimal text), a list and a tuple both become an
\* array.
JsonDump(v) ==
    [jt |-> IF v.ty = "dict" THEN "object" ELSE "array", map |-> v.map]

\* json.load: an object becomes a dict with str keys, an array a list.
JsonLoad(j) ==
    IF j.jt = "object" THEN PyDict("str", j.map) ELSE PyList(j.map)

\* payloads handed to save_cache
Payloads ==
    { PyDict("str", [x \in {"topic"} |-> "a"]),
      PyDict("int", [x \in {"1"} |-> "a"]),
      PyList([x \in {"0"} |-> "a"]),
      PyTuple([x \in {"0"} |-> "a"]) }

\* the payloads that are JSON values already: string keys, no tuple
IsJsonValue(v) == v.ty \in {"dict", "list"} /\ (v.ty = "dict" => v.keyty = "str")

(***************************************************************************)
(* Results of a call: returned normally (status "ok", none = TRUE for      *)
(* None) or raised.                                                        *)
(***************************************************************************)
RetVal(v) == [status |-> "ok", none |-> FALSE, val |-> v, ageNone |-> TRUE, age |-> 0]
RetNone == [status |-> "ok", none |-> TRUE, val |-> EmptyDict, ageNone |-> TRUE, age |-> 0]
RetRaise(e) == [status |-> e, none |-> TRUE, val |-> EmptyDict, ageNone |-> TRUE, age |-> 0]
RetPending == [status |-> "pending", none |-> TRUE, val |-> EmptyDict, ageNone |-> TRUE, age |-> 0]

(***************************************************************************)
(* Files.                                                                  *)
(***************************************************************************)
AbsentFile == [kind |-> "absent", data |-> NoJson, mtime |-> 0]
ForeignFile == [kind |-> "badbytes", data |-> NoJson, mtime |-> 0]

Exists(f) == f.kind # "absent"

\* filesystem failures a call can meet
SaveFaults == {"none", "mkdir", "open", "write"}
StatFaults == {"none", "stat"}
ReadFaults == {"none", "stat", "open"}
AgeFaults == {"none", "stat", "stat_age", "open"}

\* is_cache_valid: the file exists, stat succeeds and the age is below the TTL
is_cache_valid_le(f, ttl_hours, t, statOk) ==
    IF ~Exists(f) THEN FALSE
    ELSE IF ~statOk THEN FALSE
    ELSE (t - f.mtime) <= ttl_hours

is_cache_valid(f, ttl_hours, t, statOk) ==
    IF ~Exists(f) THEN FALSE
    ELSE IF ~statOk THEN FALSE
    ELSE (t - f.mtime) < ttl_hours

\* with open(path, 'r') as f: json.load(f), under
\* except (json.JSONDecodeError, OSError): the value of `miss` is returned.
\* Undecodable bytes raise UnicodeDecodeError, which the clause does not name.
ReadJson(f, openOk, miss) ==
    IF ~openOk \/ ~Exists(f) THEN miss
    ELSE IF f.kind = "truncated" THEN miss
    ELSE IF f.kind = "badbytes" THEN RetRaise("UnicodeDecodeError")
    ELSE RetVal(JsonLoad(f.data))

\* load_cache
load_cache(f, ttl_hours, t, fault) ==
    IF ~is_cache_valid(f, ttl_hours, t, fault # "stat") THEN RetNone
    ELSE ReadJson(f, fault # "open", RetNone)

\* get_cache_age_hours
get_cache_age_hours(f, t, statOk) ==
    IF ~Exists(f) THEN [ageNone |-> TRUE, age |-> 0]
    ELSE IF ~statOk THEN [ageNone |-> TRUE, age |-> 0]
    ELSE [ageNone |-> FALSE, age |-> t - f.mtime]

\* load_cache_with_age
load_cache_with_age(f, ttl_hours, t, fault) ==
    IF ~is_cache_valid(f, ttl_hours, t, fault # "stat") THEN RetNone
    ELSE LET a == get_cache_age_hours(f, t, fault # "stat_age")
             r == ReadJson(f, fault # "open", RetNone)
         IN  IF r.status = "ok" /\ ~r.none
             THEN [r EXCEPT !.ageNone = a.ageNone, !.age = a.age]
             ELSE r

\* with open(path, 'w') as f: json.dump(data, f), under except OSError: pass.
\* open(.., 'w') truncates, so a write that fails leaves a partial document.
WriteJsonAppend(f, data, t, fault) ==
    IF fault = "open" THEN f
    ELSE IF fault = "write" \/ Exists(f)
         THEN [kind |-> "truncated", data |-> NoJson, mtime |-> t]
    ELSE [kind |-> "json", data |-> JsonDump(data), mtime |-> t]

WriteJson(f, data, t, fault) ==
    IF fault = "open" THEN f
    ELSE IF fault = "write" THEN [kind |-> "truncated", data |-> NoJson, mtime |-> t]
    ELSE [kind |-> "json", data |-> JsonDump(data), mtime |-> t]

\* save_cache: ensure_cache_dir() runs before the try block
save_cache(fs, dir, k, data, t, fault) ==
    IF fault = "mkdir"
    THEN [ret |-> RetRaise("OSError"), dir |-> dir, files |-> fs]
    ELSE [ret |-> RetNone, dir |-> TRUE,
          files |-> [fs EXCEPT ![k] = WriteJson(@, data, t, fault)]]

\* clear_cache: unlink every *.json of the directory, failures swallowed
clear_cache_entries_only(fs, dir, failed) ==
    IF ~dir THEN fs
    ELSE [n \in FileNames |->
             IF n \in failed \/ n = MODEL_CACHE_FILE THEN fs[n] ELSE AbsentFile]

clear_cache(fs, dir, failed) ==
    IF ~dir THEN fs
    ELSE [n \in FileNames |-> IF n \in failed THEN fs[n] ELSE AbsentFile]

(***************************************************************************)
(* Preference cache (model selection): one file, a map from provider to    *)
(* model plus "updated_at".                                                *)
(***************************************************************************)
Providers == {"openai", "xai"}
\* identifiers asked for: the providers and the bookkeeping key of the map
Identifiers == Providers \cup {"updated_at"}
Models == {"m1", "m2"}

\* datetime.now(timezone.utc).isoformat(): a text that names the instant
isoformat(t) == ToString(t)

\* cache[key] = value on a dict
Put(m, k, v) == [x \in DOMAIN m \cup {k} |-> IF x = k THEN v ELSE m[x]]

\* load_model_cache: {} unless the file is within the 7-day TTL and readable
load_model_cache_any_age(f, t, fault) ==
    ReadJson(f, fault # "open", RetVal(EmptyDict))

load_model_cache(f, t, fault) ==
    IF ~is_cache_valid(f, MODEL_CACHE_TTL_DAYS * 24, t, fault # "stat")
    THEN RetVal(EmptyDict)
    ELSE ReadJson(f, fault # "open", RetVal(EmptyDict))

\* save_model_cache: ensure_cache_dir() runs before the try block
save_model_cache(f, dir, data, t, fault) ==
    IF fault = "mkdir"
    THEN [ret |-> RetRaise("OSError"), dir |-> dir, file |-> f]
    ELSE [ret |-> RetNone, dir |-> TRUE, file |-> WriteJson(f, data, t, fault)]

\* get_cached_model: cache.get(provider)
get_cached_model(f, provider, t, fault) ==
    LET c == load_model_cache(f, t, fault)
    IN  IF c.status # "ok" THEN c
        ELSE IF c.val.ty # "dict" THEN RetRaise("AttributeError")
        ELSE IF provider \in DOMAIN c.val.map THEN RetVal(c.val.map[provider])
        ELSE RetNone

\* set_cached_model: read the map, set provider and updated_at, write it back
set_cached_model_new_map(f, dir, provider, model, t, rfault, wfault) ==
    save_model_cache(f, dir,
        PyDict("str", Put(Put(EmptyMap, provider, model), "updated_at", isoformat(t))),
        t, wfault)

set_cached_model(f, dir, provider, model, t, rfault, wfault) ==
    LET c == load_model_cache(f, t, rfault)
    IN  IF c.status # "ok" THEN [ret |-> c, dir |-> dir, file |-> f]
        ELSE IF c.val.ty # "dict"
             THEN [ret |-> RetRaise("TypeError"), dir |-> dir, file |-> f]
        ELSE save_model_cache(f, dir,
                 PyDict("str", Put(Put(c.val.map, provider, model),
                                   "updated_at", isoformat(t))),
                 t, wfault)

\* set_cached_model in two steps, for callers that run at the same time.
\* The first step reads the map and sets provider and updated_at in the
\* caller's own copy; the second step writes that copy over the file.
set_cached_model_load(f, provider, model, t) ==
    Put(Put(load_model_cache(f, t, "none").val.map, provider, model),
        "updated_at", isoformat(t))

set_cached_model_save_merged(f, dir, cache, t) ==
    save_model_cache(f, dir,
        PyDict("str", [x \in DOMAIN cache \cup DOMAIN f.data.map |->
                          IF x \in DOMAIN cache THEN cache[x] ELSE f.data.map[x]]),
        t, "none")

set_cached_model_save(f, dir, cache, t) ==
    save_model_cache(f, dir, PyDict("str", cache), t, "none")

(***************************************************************************)
(* Texts.  A text is a sequence of characters, compared as Python compares *)
(* str values: character by character on the code points, a proper prefix  *)
(* before the longer text.                                                 *)
(***************************************************************************)
Digits == {"0", "1", "2", "3", "4", "5", "6", "7", "8", "9"}

Ascii ==
    ("+" :> 43) @@ ("-" :> 45) @@ ("0" :> 48) @@ ("1" :> 49) @@ ("2" :> 50) @@
    ("3" :> 51) @@ ("4" :> 52) @@ ("5" :> 53) @@ ("6" :> 54) @@ ("7" :> 55) @@
    ("8" :> 56) @@ ("9" :> 57) @@ (":" :> 58) @@ ("T" :> 84) @@ ("Z" :> 90)

DigitChar(n) == CHOOSE c \in Digits : Ascii[c] = Ascii["0"] + n
DigitVal(c) == Ascii[c] - Ascii["0"]

\* a < b on str
StrLt(a, b) ==
    \E i \in 1..Len(b) :
        /\ \A j \in 1..(i - 1) : j <= Len(a) /\ a[j] = b[j]
        /\ (i > Len(a) \/ Ascii[a[i]] < Ascii[b[i]])

\* date.isoformat(): YYYY-MM-DD, zero padded
Pad2(n) == <<DigitChar(n \div 10), DigitChar(n % 10)>>
Pad4(n) == Pad2(n \div 100) \o Pad2(n % 100)
IsoDate(y, m, d) == Pad4(y) \o <<"-">> \o Pad2(m) \o <<"-">> \o Pad2(d)

\* an optional str: None, or a text
NoneText == [present |-> FALSE, text |-> <<>>]
Text(s) == [present |-> TRUE, text |-> s]

(***************************************************************************)
(* scripts/lib/dates.py                                                    *)
(***************************************************************************)
IsLeap(y) == (y % 4 = 0 /\ y % 100 # 0) \/ y % 400 = 0
DaysInMonth(y, m) ==
    IF m = 2 THEN (IF IsLeap(y) THEN 29 ELSE 28)
    ELSE IF m \in {4, 6, 9, 11} THEN 30 ELSE 31

AllDigits(s) == \A i \in 1..Len(s) : s[i] \in Digits
RECURSIVE NumVal(_)
NumVal(s) == IF s = <<>> THEN 0 ELSE 10 * NumVal(SubSeq(s, 1, Len(s) - 1)) + DigitVal(s[Len(s)])

NoDate == [ok |-> FALSE, y |-> 0, m |-> 0, d |-> 0]

\* datetime.strptime(s, "%Y-%m-%d").date(): four digits, "-", a month of
\* one or two digits, "-", a day of one or two digits, and nothing after;
\* ValueError (ok = FALSE) otherwise.
strptime_ymd(s) ==
    IF Len(s) < 8 \/ ~AllDigits(SubSeq(s, 1, 4)) \/ s[5] # "-" THEN NoDate
    ELSE LET dash == IF s[7] = "-" THEN 7 ELSE 8
             ms == SubSeq(s, 6, dash - 1)
             ds == SubSeq(s, dash + 1, Len(s))
         IN  IF \/ s[dash] # "-"
                \/ ~AllDigits(ms) \/ ~AllDigits(ds)
                \/ Len(ds) \notin {1, 2}
                \/ NumVal(SubSeq(s, 1, 4)) < 1
                \/ NumVal(ms) \notin 1..12
                \/ NumVal(ds) < 1
                \/ NumVal(ds) > DaysInMonth(NumVal(SubSeq(s, 1, 4)), NumVal(ms))
             THEN NoDate
             ELSE [ok |-> TRUE, y |-> NumVal(SubSeq(s, 1, 4)), m |-> NumVal(ms),
                   d |-> NumVal(ds)]

\* date <= date
DateLe(a, b) ==
    a.y * 10000 + a.m * 100 + a.d <= b.y * 10000 + b.m * 100 + b.d

\* get_date_confidence
get_date_confidence(date_str, from_date, to_date) ==
    IF ~date_str.present \/ date_str.text = <<>> THEN "low"
    ELSE LET dt == strptime_ymd(date_str.text)
             start == strptime_ymd(from_date)
             end == strptime_ymd(to_date)
         IN  IF ~dt.ok \/ ~start.ok \/ ~end.ok THEN "low"
             ELSE IF DateLe(start, dt) /\ DateLe(dt, end) THEN "high"
             ELSE "low"

(***************************************************************************)
(* scripts/lib/normalize.py                                                *)
(***************************************************************************)
\* date_str.split("T")[0]
RECURSIVE SplitAtT(_)
SplitAtT(s) ==
    IF s = <<>> \/ Head(s) = "T" THEN <<>> ELSE <<Head(s)>> \o SplitAtT(Tail(s))

\* _normalize_date_for_comparison
normalize_date_no_split(date_str) ==
    IF ~date_str.present \/ date_str.text = <<>> THEN <<>> ELSE date_str.text

normalize_date_for_comparison(date_str) ==
    IF ~date_str.present \/ date_str.text = <<>> THEN <<>>
    ELSE IF \E i \in 1..Len(date_str.text) : date_str.text[i] = "T"
         THEN SplitAtT(date_str.text)
    ELSE date_str.text

\* the loop of filter_by_date_range, from item i on
RECURSIVE filter_loop(_, _, _, _, _, _)
filter_loop(items, i, from_n, to_n, require_date, result) ==
    IF i > Len(items) THEN result
    ELSE LET item == items[i]
             d == normalize_date_for_comparison(item.date)
         IN  IF ~item.date.present
             THEN filter_loop(items, i + 1, from_n, to_n, require_date,
                              IF ~require_date THEN Append(result, item) ELSE result)
             ELSE IF StrLt(d, from_n)
             THEN filter_loop(items, i + 1, from_n, to_n, require_date, result)
             ELSE IF StrLt(to_n, d)
             THEN filter_loop(items, i + 1, from_n, to_n, require_date, result)
             ELSE filter_loop(items, i + 1, from_n, to_n, require_date,
                              Append(result, item))

\* the same loop without the `continue` that ends the branch of an item
\* that has no date
RECURSIVE filter_loop_fall_through(_, _, _, _, _, _)
filter_loop_fall_through(items, i, from_n, to_n, require_date, result) ==
    IF i > Len(items) THEN result
    ELSE LET item == items[i]
             d == normalize_date_for_comparison(item.date)
             r1 == IF ~item.date.present /\ ~require_date
                   THEN Append(result, item) ELSE result
         IN  IF StrLt(d, from_n) \/ StrLt(to_n, d)
             THEN filter_loop_fall_through(items, i + 1, from_n, to_n, require_date, r1)
             ELSE filter_loop_fall_through(items, i + 1, from_n, to_n, require_date,
                                           Append(r1, item))

filter_by_date_range_fall_through(items, from_date, to_date, require_date) ==
    filter_loop_fall_through(items, 1,
        normalize_date_for_comparison(Text(from_date)),
        normalize_date_for_comparison(Text(to_date)), require_date, <<>>)

\* filter_by_date_range
filter_by_date_range(items, from_date, to_date, require_date) ==
    filter_loop(items, 1,
        normalize_date_for_comparison(Text(from_date)),
        normalize_date_for_comparison(Text(to_date)), require_date, <<>>)

(***************************************************************************)
(* calculate_ttl (scripts/lib/cache.py).  A duration is an int (days) or a *)
(* timedelta, counted here in seconds; the TTL is returned in minutes, so  *)
(* that 0.5 hours is 30.                                                   *)
(***************************************************************************)
IntDays(n) == [kind |-> "int", n |-> n]
Timedelta(secs) == [kind |-> "timedelta", n |-> secs]

\* timedelta.total_seconds(), after the conversion of an int to days
total_seconds(duration) ==
    IF duration.kind = "int" THEN duration.n * 86400 ELSE duration.n

calculate_ttl_lt(duration) ==
    LET secs == total_seconds(duration)
    IN  IF secs < 2 * 3600 THEN 30
        ELSE IF secs < 6 * 3600 THEN 60
        ELSE IF secs < 24 * 3600 THEN 120
        ELSE IF secs < 72 * 3600 THEN 360
        ELSE IF secs < 168 * 3600 THEN 720
        ELSE DEFAULT_TTL_HOURS * 60

calculate_ttl(duration) ==
    LET secs == total_seconds(duration)
    IN  IF secs <= 2 * 3600 THEN 30
        ELSE IF secs <= 6 * 3600 THEN 60
        ELSE IF secs <= 24 * 3600 THEN 120
        ELSE IF secs <= 72 * 3600 THEN 360
        ELSE IF secs <= 168 * 3600 THEN 720
        ELSE DEFAULT_TTL_HOURS * 60

(***************************************************************************)
(* parse_range (scripts/lib/dates.py).  str.strip, str.lower and the       *)
(* pattern ^(\d+)\s*(h|hours?|d|days?|w|weeks?|mo|months?)$ on texts.      *)
(***************************************************************************)
Whitespace == {" ", "\t", "\n"}

UpperCase == <<"A", "B", "C", "D", "E", "F", "G", "H", "I", "J", "K", "L", "M",
               "N", "O", "P", "Q", "R", "S", "T", "U", "V", "W", "X", "Y", "Z">>
LowerCase == <<"a", "b", "c", "d", "e", "f", "g", "h", "i", "j", "k", "l", "m",
               "n", "o", "p", "q", "r", "s", "t", "u", "v", "w", "x", "y", "z">>

\* str.lower()
lower(s) ==
    [i \in 1..Len(s) |->
        IF \E j \in 1..Len(UpperCase) : UpperCase[j] = s[i]
        THEN LowerCase[CHOOSE j \in 1..Len(UpperCase) : UpperCase[j] = s[i]]
        ELSE s[i]]

\* str.strip(): the text between the first and the last character that is
\* not whitespace
strip(s) ==
    LET solid == {i \in 1..Len(s) : s[i] \notin Whitespace}
    IN  IF solid = {} THEN <<>>
        ELSE SubSeq(s, CHOOSE i \in solid : \A j \in solid : i <= j,
                       CHOOSE i \in solid : \A j \in solid : j <= i)

\* the length of the longest prefix of s made of characters of cs
RECURSIVE Span(_, _)
Span(s, cs) == IF s # <<>> /\ Head(s) \in cs THEN 1 + Span(Tail(s), cs) ELSE 0

\* the alternatives of the second group of the pattern
HourUnits == {<<"h">>, <<"h", "o", "u", "r">>, <<"h", "o", "u", "r", "s">>}
DayUnits == {<<"d">>, <<"d", "a", "y">>, <<"d", "a", "y", "s">>}
WeekUnits == {<<"w">>, <<"w", "e", "e", "k">>, <<"w", "e", "e", "k", "s">>}
MonthUnits == {<<"m", "o">>, <<"m", "o", "n", "t", "h">>,
               <<"m", "o", "n", "t", "h", "s">>}

\* the message of the ValueError, in three pieces
InvalidRange(s) ==
    <<"Invalid range format: '">> \o s
    \o <<"'. Use formats like '2 hours', '3 days', '2 weeks', '6 months'">>

\* parse_range without the lower-casing
parse_range_keep_case(range_str) ==
    LET s == strip(range_str)
        nd == Span(s, Digits)
        rest == SubSeq(s, nd + 1, Len(s))
        unit == SubSeq(rest, Span(rest, Whitespace) + 1, Len(rest))
        amount == NumVal(SubSeq(s, 1, nd))
    IN  IF nd = 0 \/ unit \notin HourUnits \cup DayUnits \cup WeekUnits \cup MonthUnits
        THEN [ok |-> FALSE, value |-> Timedelta(0), message |-> InvalidRange(s)]
        ELSE [ok |-> TRUE, message |-> <<>>,
              value |-> IF unit \in HourUnits THEN Timedelta(amount * 3600)
                        ELSE IF unit \in DayUnits THEN Timedelta(amount * 86400)
                        ELSE IF unit \in WeekUnits THEN Timedelta(amount * 7 * 86400)
                        ELSE Timedelta(amount * 30 * 86400)]

\* parse_range: ok with the timedelta, or the ValueError with its message
parse_range(range_str) ==
    LET s == lower(strip(range_str))
        nd == Span(s, Digits)
        rest == SubSeq(s, nd + 1, Len(s))
        unit == SubSeq(rest, Span(rest, Whitespace) + 1, Len(rest))
        amount == NumVal(SubSeq(s, 1, nd))
    IN  IF nd = 0 \/ unit \notin HourUnits \cup DayUnits \cup WeekUnits \cup MonthUnits
        THEN [ok |-> FALSE, value |-> Timedelta(0), message |-> InvalidRange(s)]
        ELSE [ok |-> TRUE, message |-> <<>>,
              value |-> IF unit \in HourUnits THEN Timedelta(amount * 3600)
                        ELSE IF unit \in DayUnits THEN Timedelta(amount * 86400)
                        ELSE IF unit \in WeekUnits THEN Timedelta(amount * 7 * 86400)
                        ELSE Timedelta(amount * 30 * 86400)]

(***************************************************************************)
(* Dates and times (scripts/lib/dates.py).  A datetime in UTC is the       *)
(* number of days since 1970-01-01, the second of the day and the          *)
(* microsecond; datetime - timedelta is arithmetic on these.               *)
(***************************************************************************)
\* the years a datetime of the model can fall in
Years == 1969..2027

RECURSIVE DaysBeforeMonth(_, _)
DaysBeforeMonth(y, m) ==
    IF m = 1 THEN 0 ELSE DaysBeforeMonth(y, m - 1) + DaysInMonth(y, m - 1)

LeapsBefore(y) == ((y - 1) \div 4) - ((y - 1) \div 100) + ((y - 1) \div 400)

\* the day number of a calendar date
DaysFromCivil(y, m, d) ==
    365 * (y - 1970) + LeapsBefore(y) - LeapsBefore(1970)
    + DaysBeforeMonth(y, m) + d - 1

\* the calendar date of a day number
CivilFromDays(n) ==
    LET y == CHOOSE y \in Years :
                 DaysFromCivil(y, 1, 1) <= n /\ n < DaysFromCivil(y + 1, 1, 1)
        m == CHOOSE m \in 1..12 :
                 /\ DaysFromCivil(y, m, 1) <= n
                 /\ n < DaysFromCivil(y, m, 1) + DaysInMonth(y, m)
    IN  [y |-> y, m |-> m, d |-> n - DaysFromCivil(y, m, 1) + 1]

DateTime(y, m, d, hh, mm, ss, us) ==
    [day |-> DaysFromCivil(y, m, d), sec |-> hh * 3600 + mm * 60 + ss, micro |-> us]

\* datetime - timedelta, the timedelta in whole seconds
MinusSeconds(t, secs) ==
    [day |-> t.day + ((t.sec - secs) \div 86400),
     sec |-> (t.sec - secs) % 86400,
     micro |-> t.micro]

Pad6(n) == Pad2(n \div 10000) \o Pad2((n \div 100) % 100) \o Pad2(n % 100)

\* datetime.date().isoformat()
date_isoformat(t) ==
    LET c == CivilFromDays(t.day) IN IsoDate(c.y, c.m, c.d)

\* datetime.isoformat() of an aware datetime in UTC: the microseconds are
\* written only when they are not zero
datetime_isoformat(t) ==
    date_isoformat(t) \o <<"T">>
    \o Pad2(t.sec \div 3600) \o <<":">> \o Pad2((t.sec \div 60) % 60)
    \o <<":">> \o Pad2(t.sec % 60)
    \o (IF t.micro # 0 THEN <<".">> \o Pad6(t.micro) ELSE <<>>)
    \o <<"+", "0", "0", ":", "0", "0">>

\* get_date_range with the comparison "duration <= one day"
get_date_range_le(duration, t) ==
    LET secs == total_seconds(duration)
        from_dt == MinusSeconds(t, secs)
    IN  IF secs <= 86400
        THEN <<datetime_isoformat(from_dt), datetime_isoformat(t)>>
        ELSE <<date_isoformat(from_dt), date_isoformat(t)>>

\* get_date_range, t being what datetime.now(timezone.utc) returns
get_date_range(duration, t) ==
    LET secs == total_seconds(duration)
        from_dt == MinusSeconds(t, secs)
    IN  IF secs < 86400
        THEN <<datetime_isoformat(from_dt), datetime_isoformat(t)>>
        ELSE <<date_isoformat(from_dt), date_isoformat(t)>>

(***************************************************************************)
(* parse_date (scripts/lib/dates.py): float() and datetime.fromtimestamp,  *)
(* then datetime.strptime with each of the five formats.                   *)
(***************************************************************************)
\* the text of a number without its leading zeros
StripZeros(ds) ==
    IF ds = <<>> THEN <<"0">>
    ELSE LET z == Span(ds, {"0"})
         IN  SubSeq(ds, (IF z = Len(ds) THEN z - 1 ELSE z) + 1, Len(ds))

\* a < b on numbers written without leading zeros
DecLt(a, b) == Len(a) < Len(b) \/ (Len(a) = Len(b) /\ StrLt(a, b))

\* up to six digits after a point, as a count of microseconds
Micros(fr) ==
    NumVal(SubSeq(fr \o <<"0", "0", "0", "0", "0", "0">>, 1, 6))

Infinities == {<<"i", "n", "f">>, <<"i", "n", "f", "i", "n", "i", "t", "y">>}
NotANumber == <<"n", "a", "n">>

\* float(str): whitespace around, a sign, then inf, infinity or nan in any
\* case, or digits with an optional point and more digits.  Exponents and
\* underscores are left out; digits after the sixth decimal are dropped,
\* where fromtimestamp rounds.
float(s) ==
    LET t == lower(strip(s))
        signed == t # <<>> /\ t[1] \in {"+", "-"}
        body == IF signed THEN Tail(t) ELSE t
        ni == Span(body, Digits)
        rest == SubSeq(body, ni + 1, Len(body))
        fr == IF rest = <<>> THEN <<>> ELSE Tail(rest)
        none == [kind |-> "ValueError", neg |-> FALSE, int |-> <<"0">>, micro |-> 0]
    IN  IF body \in Infinities THEN [none EXCEPT !.kind = "inf"]
        ELSE IF body = NotANumber THEN [none EXCEPT !.kind = "nan"]
        ELSE IF /\ rest = <<>> \/ rest[1] = "."
                /\ AllDigits(fr)
                /\ ni + Len(fr) > 0
        THEN [kind |-> "num", neg |-> signed /\ t[1] = "-",
              int |-> StripZeros(SubSeq(body, 1, ni)), micro |-> Micros(fr)]
        ELSE none

\* the quotient and the remainder of a decimal text by 86400
RECURSIVE LongDiv(_, _, _)
LongDiv(ds, q, r) ==
    IF ds = <<>> THEN [q |-> q, r |-> r]
    ELSE LET cur == r * 10 + DigitVal(Head(ds))
         IN  LongDiv(Tail(ds), q * 10 + (cur \div 86400), cur % 86400)

\* from this magnitude on gmtime fails (OSError), and from the next one on
\* the float does not fit time_t (OverflowError); below, a year outside
\* 1..9999 is a ValueError
GmtimeLimit == <<"6", "7", "7", "6", "8", "0", "3", "6", "1", "9", "1", "6", "7", "6", "7", "9", "6">>
TimeTLimit == <<"9", "2", "2", "3", "3", "7", "2", "0", "3", "6", "8", "5", "4", "7", "7", "5", "2", "9", "6">>

\* the datetime of an epoch number that is within datetime's years
Epoch(f) ==
    LET dm == LongDiv(f.int, 0, 0)
    IN  IF ~f.neg THEN [day |-> dm.q, sec |-> dm.r, micro |-> f.micro]
        ELSE IF f.micro = 0
        THEN (IF dm.r = 0 THEN [day |-> 0 - dm.q, sec |-> 0, micro |-> 0]
              ELSE [day |-> 0 - dm.q - 1, sec |-> 86400 - dm.r, micro |-> 0])
        ELSE [day |-> 0 - dm.q - 1, sec |-> 86400 - dm.r - 1,
              micro |-> 1000000 - f.micro]

\* datetime.fromtimestamp(ts, tz=timezone.utc): the datetime, or the
\* exception it raises
fromtimestamp(f) ==
    IF f.kind = "nan" THEN [status |-> "ValueError", dt |-> Epoch([f EXCEPT !.int = <<"0">>])]
    ELSE IF f.kind = "inf" \/ ~DecLt(f.int, TimeTLimit)
    THEN [status |-> "OverflowError", dt |-> Epoch([f EXCEPT !.int = <<"0">>])]
    ELSE IF ~DecLt(f.int, GmtimeLimit)
    THEN [status |-> "OSError", dt |-> Epoch([f EXCEPT !.int = <<"0">>])]
    ELSE IF Len(f.int) > 12
    THEN [status |-> "ValueError", dt |-> Epoch([f EXCEPT !.int = <<"0">>])]
    ELSE LET dt == Epoch(f)
         IN  IF dt.day < DaysFromCivil(1, 1, 1) \/ dt.day > DaysFromCivil(9999, 12, 31)
             THEN [status |-> "ValueError", dt |-> dt]
             ELSE [status |-> "ok", dt |-> dt]

\* the position of the first "T" or "t" of a text
TPos(s) ==
    LET ts == {i \in 1..Len(s) : s[i] \in {"T", "t"}}
    IN  IF ts = {} THEN Len(s) + 1 ELSE CHOOSE i \in ts : \A j \in ts : i <= j

\* one field of one or two digits below a limit, at the head of u
Field(u, limit) ==
    LET n == Span(u, Digits)
    IN  [ok |-> n \in {1, 2} /\ NumVal(SubSeq(u, 1, n)) < limit,
         val |-> NumVal(SubSeq(u, 1, IF n > 2 THEN 2 ELSE n)),
         rest |-> SubSeq(u, n + 1, Len(u))]

\* %H:%M:%S at the head of u
TimeFields(u) ==
    LET h == Field(u, 24)
        m == Field(IF h.rest = <<>> THEN <<>> ELSE Tail(h.rest), 60)
        x == Field(IF m.rest = <<>> THEN <<>> ELSE Tail(m.rest), 60)
    IN  [ok |-> /\ h.ok /\ h.rest # <<>> /\ h.rest[1] = ":"
                /\ m.ok /\ m.rest # <<>> /\ m.rest[1] = ":"
                /\ x.ok,
         sec |-> h.val * 3600 + m.val * 60 + x.val,
         rest |-> x.rest]

\* %z: "Z", or a sign, two digits of hours, an optional colon and two
\* digits of minutes, the offset being below 24 hours (the optional
\* seconds of an offset are left out)
Zone(z) ==
    IF z = <<"Z">> THEN [ok |-> TRUE, offset |-> 0]
    ELSE IF /\ Len(z) \in {5, 6}
            /\ z[1] \in {"+", "-"}
            /\ AllDigits(SubSeq(z, 2, 3))
            /\ Len(z) = 6 => z[4] = ":"
            /\ AllDigits(SubSeq(z, Len(z) - 1, Len(z)))
            /\ NumVal(SubSeq(z, Len(z) - 1, Len(z))) < 60
            /\ NumVal(SubSeq(z, 2, 3)) < 24
    THEN [ok |-> TRUE,
          offset |-> (IF z[1] = "-" THEN -1 ELSE 1)
                     * (NumVal(SubSeq(z, 2, 3)) * 3600
                        + NumVal(SubSeq(z, Len(z) - 1, Len(z))) * 60)]
    ELSE [ok |-> FALSE, offset |-> 0]

\* the formats of parse_date, by their position in the list
Formats == 1..5

\* datetime.strptime(date_str, formats[fmt]): the wall-clock reading and
\* the UTC offset that %z read (0 where the format has no %z)
strptime(s, fmt) ==
    LET p == TPos(s)
        date == strptime_ymd(SubSeq(s, 1, p - 1))
        tf == TimeFields(SubSeq(s, p + 1, Len(s)))
        nf == IF tf.rest = <<>> THEN 0 ELSE Span(Tail(tf.rest), Digits)
        zone == IF fmt = 4 THEN Zone(tf.rest)
                ELSE IF fmt = 5 THEN Zone(SubSeq(tf.rest, nf + 2, Len(tf.rest)))
                ELSE [ok |-> TRUE, offset |-> 0]
        ok == IF fmt = 1 THEN strptime_ymd(s).ok
              ELSE /\ p <= Len(s) /\ date.ok /\ tf.ok
                   /\ fmt = 2 => tf.rest = <<>>
                   /\ fmt = 3 => tf.rest \in {<<"Z">>, <<"z">>}
                   /\ fmt = 5 => tf.rest # <<>> /\ tf.rest[1] = "." /\ nf \in 1..6
                   /\ zone.ok
        d == IF fmt = 1 THEN strptime_ymd(s) ELSE date
    IN  IF ~ok THEN [ok |-> FALSE, day |-> 0, sec |-> 0, micro |-> 0, offset |-> 0]
        ELSE [ok |-> TRUE,
              day |-> DaysFromCivil(d.y, d.m, d.d),
              sec |-> IF fmt = 1 THEN 0 ELSE tf.sec,
              micro |-> IF fmt = 5 THEN Micros(SubSeq(tf.rest, 2, nf + 1)) ELSE 0,
              offset |-> zone.offset]

\* datetime.replace(tzinfo=timezone.utc): the same wall-clock reading, now
\* labelled UTC; the offset that was read is dropped
replace_tzinfo_utc(dt) == [day |-> dt.day, sec |-> dt.sec, micro |-> dt.micro]

\* parse_date on a text that is not empty: f is what float() makes of it,
\* ts what fromtimestamp makes of f, and hits the formats that read it
parse_date_text(s, f, ts, hits) ==
    IF f.kind # "ValueError" /\ ts.status = "ok" THEN RetVal(ts.dt)
    ELSE IF f.kind # "ValueError" /\ ts.status # "ValueError"
    THEN RetRaise(ts.status)
    ELSE IF hits = {} THEN RetNone
    ELSE RetVal(replace_tzinfo_utc(
             strptime(s, CHOOSE fmt \in hits : \A g \in hits : fmt <= g)))

\* parse_date: None, a datetime in UTC, or the exception that escapes
parse_date(date_str) ==
    IF ~date_str.present \/ date_str.text = <<>> THEN RetNone
    ELSE parse_date_text(date_str.text, float(date_str.text),
                         fromtimestamp(float(date_str.text)),
                         {fmt \in Formats : strptime(date_str.text, fmt).ok})

(***************************************************************************)
(* Python floats (IEEE 754 binary64, round to nearest, ties to even), for  *)
(* the arithmetic of recency_score.  A natural number is written in        *)
(* binary, most significant bit first, without leading zeros (zero is the  *)
(* empty sequence); a float that is not negative is [m, e], standing for   *)
(* m * 2^e with m such a binary number of at most 53 bits.                 *)
(***************************************************************************)
\* the bits of the significand of a binary64
Precision == 53

RECURSIVE BitsOf(_)
BitsOf(n) == IF n = 0 THEN <<>> ELSE Append(BitsOf(n \div 2), n % 2)

RECURSIVE BitsVal(_)
BitsVal(b) ==
    IF b = <<>> THEN 0 ELSE 2 * BitsVal(SubSeq(b, 1, Len(b) - 1)) + b[Len(b)]

Zeros(k) == [i \in 1..k |-> 0]
StripBits(b) ==
    LET ones == {i \in 1..Len(b) : b[i] = 1}
    IN  IF ones = {} THEN <<>>
        ELSE SubSeq(b, CHOOSE i \in ones : \A j \in ones : i <= j, Len(b))

\* the arithmetic goes over a binary number eight bits at a time
Chunk == 8

\* the last c bits of b and what is before them
Low(b, c) == SubSeq(b, IF Len(b) > c THEN Len(b) - c + 1 ELSE 1, Len(b))
High(b, c) == SubSeq(b, 1, Len(b) - c)
\* n < 2^c written on exactly c bits
Fixed(n, c) == LET b == BitsOf(n) IN Zeros(c - Len(b)) \o b

\* a + b + carry, with leading zeros
RECURSIVE AddCarry(_, _, _)
AddCarry(a, b, c) ==
    IF a = <<>> /\ b = <<>> THEN BitsOf(c)
    ELSE LET sum == BitsVal(Low(a, Chunk)) + BitsVal(Low(b, Chunk)) + c
         IN  AddCarry(High(a, Chunk), High(b, Chunk), sum \div 2^Chunk)
             \o Fixed(sum % 2^Chunk, Chunk)

AddBits(a, b) == StripBits(AddCarry(a, b, 0))

\* a - b - borrow, for a >= b, with leading zeros
RECURSIVE SubBorrow(_, _, _)
SubBorrow(a, b, c) ==
    IF a = <<>> THEN <<>>
    ELSE LET diff == BitsVal(Low(a, Chunk)) - BitsVal(Low(b, Chunk)) - c
         IN  SubBorrow(High(a, Chunk), High(b, Chunk), IF diff < 0 THEN 1 ELSE 0)
             \o Fixed(diff % 2^Chunk, Chunk)

SubBits(a, b) == StripBits(SubBorrow(a, b, 0))

\* a * k + carry for a machine integer k < 2^23, with leading zeros
RECURSIVE MulCarry(_, _, _)
MulCarry(a, k, c) ==
    IF a = <<>> THEN BitsOf(c)
    ELSE LET prod == BitsVal(Low(a, Chunk)) * k + c
         IN  MulCarry(High(a, Chunk), k, prod \div 2^Chunk)
             \o Fixed(prod % 2^Chunk, Chunk)

MulSmall(a, k) == StripBits(MulCarry(a, k, 0))

\* long division of the binary number d by the machine integer m < 2^23:
\* the quotient, with its leading zeros, and the remainder
RECURSIVE DivBits(_, _)
DivBits(d, m) ==
    IF d = <<>> THEN [q |-> <<>>, r |-> 0]
    ELSE LET low == Low(d, Chunk)
             prev == DivBits(High(d, Chunk), m)
             cur == prev.r * 2^Len(low) + BitsVal(low)
         IN  [q |-> prev.q \o Fixed(cur \div m, Len(low)), r |-> cur % m]

\* the float nearest to b * 2^e (plus a little, when sticky), ties to even
Round(b, e, sticky) ==
    IF Len(b) <= Precision THEN [m |-> b, e |-> e]
    ELSE LET keep == SubSeq(b, 1, Precision)
             half == b[Precision + 1] = 1
             more == sticky \/ \E i \in (Precision + 2)..Len(b) : b[i] = 1
             up == half /\ (more \/ keep[Precision] = 1)
             rounded == IF up THEN AddBits(keep, <<1>>) ELSE keep
         IN  IF Len(rounded) > Precision
             THEN [m |-> SubSeq(rounded, 1, Precision),
                   e |-> e + Len(b) - Precision + 1]
             ELSE [m |-> rounded, e |-> e + Len(b) - Precision]

\* x / n for a float x and a float n that is an integer below 2^23; also
\* the true division of int by int, which rounds once
float_div(x, n) ==
    LET pad == Precision + 1 + Len(BitsOf(n))
        quot == DivBits(x.m \o Zeros(pad), n)
    IN  Round(StripBits(quot.q), x.e - pad, quot.r # 0)

\* 1 - x for a float 0 <= x <= 1
float_one_minus(x) ==
    IF x.m = <<>> THEN [m |-> <<1>>, e |-> 0]
    ELSE IF x.e >= 0 THEN [m |-> <<>>, e |-> 0]
    ELSE Round(SubBits(<<1>> \o Zeros(0 - x.e), x.m), x.e, FALSE)

\* k * x for an int k and a float x
float_times(k, x) == Round(MulSmall(x.m, k), x.e, FALSE)

\* int(x): the integer part
float_int(x) ==
    IF x.e >= 0 THEN BitsVal(x.m \o Zeros(x.e))
    ELSE BitsVal(SubSeq(x.m, 1, Len(x.m) + x.e))

\* timedelta.total_seconds() as a float: the microseconds of the timedelta
\* divided by 10**6
float_total_seconds(secs, micro) ==
    float_div([m |-> AddBits(MulSmall(BitsOf(secs), 1000000), BitsOf(micro)),
               e |-> 0], 1000000)

\* int(100 * (1 - age.total_seconds() / max_duration.total_seconds())),
\* the age given in seconds and microseconds, max_duration in whole seconds
\* and longer than the age
interpolate(age_secs, age_micro, max_secs) ==
    float_int(float_times(100,
        float_one_minus(float_div(float_total_seconds(age_secs, age_micro),
                                  max_secs))))

\* recency_score once the date is parsed: parsed is what parse_date gave,
\* max_secs the seconds of max_duration
score_of(parsed, max_secs, t) ==
    LET p == parsed.val
        days == t.day - p.day
        borrow == IF t.micro < p.micro THEN 1 ELSE 0
        age_secs == days * 86400 + t.sec - p.sec - borrow
        age_micro == (t.micro - p.micro) % 1000000
    IN  IF parsed.status # "ok" THEN parsed
        ELSE IF parsed.none THEN RetVal(0)
        ELSE IF days < -1 THEN RetVal(100)
        ELSE IF max_secs < 0 \/ days > (max_secs \div 86400) + 1 THEN RetVal(0)
        ELSE IF age_secs < 0 THEN RetVal(100)
        ELSE IF age_secs >= max_secs THEN RetVal(0)
        ELSE RetVal(interpolate(age_secs, age_micro, max_secs))

\* recency_score, t being what datetime.now(timezone.utc) returns and
\* max_duration an int of days or a timedelta of whole seconds.  An age of
\* more than a day in the future, or of more than a day beyond
\* max_duration, is decided on the days alone.
recency_score(date_str, max_duration, t) ==
    IF ~date_str.present \/ date_str.text = <<>> THEN RetVal(0)
    ELSE score_of(parse_date(date_str), total_seconds(max_duration), t)

(***************************************************************************)
(* is_valid_url and the normalizers (scripts/lib/normalize.py), with       *)
(* urllib.parse.urlparse on texts: the scheme and the netloc of a URL.     *)
(***************************************************************************)
Letters ==
    {UpperCase[i] : i \in 1..Len(UpperCase)} \cup {LowerCase[i] : i \in 1..Len(LowerCase)}
SchemeChars == Letters \cup Digits \cup {"+", "-", "."}
\* characters that urlsplit removes wherever they are
UnsafeBytes == {"\t", "\r", "\n"}

\* the position of the first character of s that is in cs, or 0
Find(s, cs) ==
    LET at == {i \in 1..Len(s) : s[i] \in cs}
    IN  IF at = {} THEN 0 ELSE CHOOSE i \in at : \A j \in at : i <= j

\* urlparse(url): leading blanks stripped and tabs and line ends removed;
\* the scheme is the text before the first colon when that text starts
\* with a letter and is made of scheme characters, lower-cased; the netloc
\* is what follows "//" up to the first of "/", "?" and "#"; a netloc with
\* one square bracket and not the other is a ValueError (ok = FALSE).
urlparse(url) ==
    LET u == SelectSeq(SubSeq(url, Span(url, {" "}) + 1, Len(url)),
                       LAMBDA c : c \notin UnsafeBytes)
        colon == Find(u, {":"})
        hasScheme == /\ colon > 1
                     /\ u[1] \in Letters
                     /\ \A i \in 1..(colon - 1) : u[i] \in SchemeChars
        rest == IF hasScheme THEN SubSeq(u, colon + 1, Len(u)) ELSE u
        after == SubSeq(rest, 3, Len(rest))
        stop == Find(after, {"/", "?", "#"})
        netloc == IF Len(rest) >= 2 /\ rest[1] = "/" /\ rest[2] = "/"
                  THEN SubSeq(after, 1, IF stop = 0 THEN Len(after) ELSE stop - 1)
                  ELSE <<>>
    IN  [ok |-> (Find(netloc, {"["}) = 0) = (Find(netloc, {"]"}) = 0),
         scheme |-> IF hasScheme THEN lower(SubSeq(u, 1, colon - 1)) ELSE <<>>,
         netloc |-> netloc]

Http == <<"h", "t", "t", "p">>
Https == <<"h", "t", "t", "p", "s">>

\* is_valid_url; a url that is not a str is None here
is_valid_url(url) ==
    IF ~url.present \/ url.text = <<>> THEN FALSE
    ELSE LET parsed == urlparse(url.text)
         IN  parsed.ok /\ parsed.scheme \in {Http, Https} /\ parsed.netloc # <<>>

\* schema.Comment of a raw comment: its url cleared when it is not empty
\* and not valid (the other fields are copied and left out here)
normalize_comment(c) ==
    [url |-> IF c.url.present /\ c.url.text # <<>> /\ ~is_valid_url(c.url)
             THEN Text(<<>>) ELSE c.url]

\* normalize_reddit_items: the items with a valid url, in order, each with
\* its comments and its date confidence (engagement, title and the other
\* copied fields are left out)
RECURSIVE normalize_reddit_items(_, _, _)
normalize_reddit_items(items, from_date, to_date) ==
    IF items = <<>> THEN <<>>
    ELSE LET item == Head(items)
         IN  (IF ~is_valid_url(item.url) THEN <<>>
              ELSE << [id |-> item.id, url |-> item.url, date |-> item.date,
                       date_confidence |->
                           get_date_confidence(item.date, from_date, to_date),
                       top_comments |->
                           [j \in 1..Len(item.top_comments) |->
                               normalize_comment(item.top_comments[j])]] >>)
             \o normalize_reddit_items(Tail(items), from_date, to_date)

\* normalize_x_items: the same without comments
RECURSIVE normalize_x_items(_, _, _)
normalize_x_items(items, from_date, to_date) ==
    IF items = <<>> THEN <<>>
    ELSE LET item == Head(items)
         IN  (IF ~is_valid_url(item.url) THEN <<>>
              ELSE << [id |-> item.id, url |-> item.url, date |-> item.date,
                       date_confidence |->
                           get_date_confidence(item.date, from_date, to_date)] >>)
             \o normalize_x_items(Tail(items), from_date, to_date)

(***************************************************************************)
(* Arguments of the calls of the pure functions.                           *)
(***************************************************************************)
Midnight == <<"T", "0", "0", ":", "0", "0", ":", "0", "0", "+", "0", "0", ":", "0", "0">>
Noon == <<"T", "1", "2", ":", "0", "0", ":", "0", "0", "Z">>

Dec31 == IsoDate(2025, 12, 31)
Jan01 == IsoDate(2026, 1, 1)
Jan15 == IsoDate(2026, 1, 15)
Jan31 == IsoDate(2026, 1, 31)
Feb01 == IsoDate(2026, 2, 1)
\* a date written without padding, which strptime accepts
Jan5Short == <<"2", "0", "2", "6", "-", "1", "-", "5">>

\* the date of an item: None, empty, a date, a datetime
ItemDates ==
    {NoneText, Text(<<>>), Text(Jan5Short)}
    \cup {Text(d) : d \in {Dec31, Jan01, Jan15, Jan31, Feb01}}
    \cup {Text(Jan15 \o Noon), Text(Jan31 \o Noon), Text(Dec31 \o Noon)}

\* the boundaries of a window: dates, datetimes, and the empty text
FromDates == {Jan01, Jan15, Jan01 \o Midnight, Jan15 \o Noon, <<>>}
ToDates == {Jan15, Jan31, Jan31 \o Noon, Jan15 \o Noon}

Item(i, d) == [id |-> i, date |-> d]
ItemLists ==
    UNION { { [i \in 1..n |-> Item(i, ds[i])] : ds \in [1..n -> ItemDates] }
            : n \in 0..MaxItems }

Durations ==
    {IntDays(n) : n \in {0, 1, 3, 7, 8, 30}}
    \cup {Timedelta(h * 3600 + e) : h \in {2, 6, 24, 72, 168}, e \in {-1, 0, 1}}
    \cup {Timedelta(0), Timedelta(30 * 86400)}

\* range texts: optional whitespace, an amount, optional whitespace, a unit
\* word in lower or upper case, optional whitespace; and texts with a sign,
\* a fraction or a blank inside the unit
RangeAmounts == {<<>>, <<"0">>, <<"2">>, <<"0", "3">>, <<"1", "2">>}
RangeGaps == {<<>>, <<" ">>, <<"\t", " ">>}
RangeWords ==
    HourUnits \cup DayUnits \cup WeekUnits \cup MonthUnits
    \cup {<<"H">>, <<"H", "o", "u", "r", "s">>, <<"D", "A", "Y">>, <<"W">>,
          <<"M", "o">>, <<"m">>, <<"h", "r", "s">>, <<"h", "s">>,
          <<"s", "e", "c", "o", "n", "d", "s">>,
          <<"S", "e", "c", "o", "n", "d", "s">>,
          <<"i", "n", "v", "a", "l", "i", "d">>, <<>>}
RangeTexts ==
    {pre \o n \o gap \o w \o post :
        pre \in {<<>>, <<" ">>}, n \in RangeAmounts, gap \in RangeGaps,
        w \in RangeWords, post \in {<<>>, <<" ">>, <<"\n">>}}
    \cup {<<"+", "2", "h">>, <<"-", "2", "h">>, <<"2", ".", "5", "h">>,
          <<"2", "h", "o", "u", "r", " ", "s">>, <<"2", " ", "2", "h">>,
          <<"B", "A", "D">>}

\* readings of the clock
Clocks ==
    {DateTime(2026, 1, 15, 0, 0, 0, 0), DateTime(2026, 1, 15, 7, 7, 5, 141902),
     DateTime(2026, 3, 1, 0, 30, 0, 0), DateTime(2026, 1, 1, 1, 0, 0, 0),
     DateTime(2024, 3, 1, 12, 0, 0, 5)}

\* the durations of a window, a negative one among them
WindowDurations == Durations \cup {Timedelta(-3600), Timedelta(400 * 86400)}

\* the clock of a recency_score call, and the ages of the items in seconds
RecencyClocks ==
    {DateTime(2026, 1, 15, 12, 0, 0, 0), DateTime(2026, 1, 15, 12, 0, 0, 500000)}
RecencyAges ==
    {-60, 0, 1, 2448, 3600, 3960, 7199, 7200, 7201, 43200, 15 * 86400, 30 * 86400}
EpochJan15 == <<"1", "7", "6", "8", "4", "3", "5", "2", "0", "0">>
OffsetMorning == Jan15 \o <<"T", "1", "0", ":", "0", "0", ":", "0", "0", "+", "0", "5", ":", "0", "0">>
\* the date of an item: the isoformat of the clock less an age, a date, an
\* epoch number, a datetime with a UTC offset, and texts that are no date
RecencyDates ==
    {Text(datetime_isoformat(MinusSeconds(t, a))) : t \in RecencyClocks, a \in RecencyAges}
    \cup {NoneText, Text(<<>>), Text(<<"i", "n", "f">>), Text(<<"n", "a", "n">>), Text(<<"i", "n", "v", "a", "l", "i", "d">>),
          Text(Dec31), Text(Jan15), Text(Jan31), Text(Jan15 \o Noon),
          Text(EpochJan15), Text(OffsetMorning)}
RecencyMax == {Timedelta(7200), Timedelta(86400), IntDays(30), IntDays(0)}

\* the url of a raw record or of a comment
GoodUrl == Text(<<"h", "t", "t", "p", "s", ":", "/", "/", "e", "x", "a", "m", "p", "l", "e", ".", "c", "o", "m", "/", "x">>)
ScriptUrl == Text(<<"j", "a", "v", "a", "s", "c", "r", "i", "p", "t", ":", "a", "l", "e", "r", "t", "(", "1", ")">>)
PortOnlyUrl == Text(<<"h", "t", "t", "p", ":", "/", "/", ":", "8", "0", "/">>)
Urls ==
    {NoneText, Text(<<>>), GoodUrl, ScriptUrl, PortOnlyUrl, Text(<<"H", "T", "T", "P", ":", "/", "/", "E", ".", "c", "o", "m">>),
     Text(<<"f", "i", "l", "e", ":", "/", "/", "/", "e", "t", "c", "/", "p", "a", "s", "s", "w", "d">>), Text(<<"/", "/", "e", ".", "c", "o", "m", "/", "x">>), Text(<<"h", "t", "t", "p", "s", ":", "/", "/", "@", "/">>), Text(<<"h", "t", "t", "p", ":", "/", "/", "[", "e", ".", "c", "o", "m", "/">>)}
Comment(u) == [url |-> u]
CommentLists ==
    {<<Comment(ScriptUrl), Comment(GoodUrl)>>, <<Comment(NoneText)>>,
     <<Comment(Text(<<>>)), Comment(PortOnlyUrl)>>}
\* raw records: every url without comments, and some with comments
RawItem(u, cs) == [url |-> u, date |-> Text(Jan15), top_comments |-> cs]
RawItems ==
    {RawItem(u, <<>>) : u \in Urls}
    \cup {RawItem(GoodUrl, cs) : cs \in CommentLists}
    \cup {RawItem(ScriptUrl, cs) : cs \in CommentLists}
RawLists ==
    UNION { { [i \in 1..n |-> [id |-> i, url |-> xs[i].url, date |-> xs[i].date,
                                top_comments |-> xs[i].top_comments]] :
              xs \in [1..n -> RawItems] } : n \in 0..MaxItems }

\* the texts given to parse_date: those of recency_score and datetimes
\* with "Z", with an offset behind UTC, with an offset of zero and with a
\* fraction of a second
OffsetEvening == Jan15 \o <<"T", "2", "0", ":", "3", "0", ":", "0", "0", "-", "0", "8", ":", "0", "0">>
ParseDates ==
    RecencyDates
    \cup {Text(OffsetEvening), Text(Jan15 \o <<"T", "1", "0", ":", "0", "0", ":", "0", "0", "Z">>), Text(Jan15 \o <<"T", "1", "0", ":", "0", "0", ":", "0", "0", "+", "0", "0", ":", "0", "0">>),
          Text(Jan15 \o <<"T", "1", "0", ":", "0", "0", ":", "0", "0", ".", "2", "5", "+", "0", "1", ":", "0", "0">>), Text(Jan15 \o <<"T", "1", "0", ":", "0", "0", ":", "0", "0", "+", "0", "5", "3", "0">>)}

PureCalls(op) ==
    CASE op = "confidence" ->
           {[op |-> op, date |-> d, from |-> f, to |-> t] :
               d \in ItemDates, f \in FromDates, t \in ToDates}
      [] op = "filter" ->
           {[op |-> op, items |-> x, from |-> f, to |-> t, require_date |-> r] :
               x \in ItemLists, f \in FromDates, t \in ToDates, r \in BOOLEAN}
      [] op = "ttl" -> {[op |-> op, duration |-> d] : d \in Durations}
      [] op = "range" -> {[op |-> op, text |-> x] : x \in RangeTexts}
      [] op = "window" ->
           {[op |-> op, duration |-> d, now |-> t] :
               d \in WindowDurations, t \in Clocks}
      [] op = "recency" ->
           {[op |-> op, date |-> d, max |-> m, now |-> t] :
               d \in RecencyDates, m \in RecencyMax, t \in RecencyClocks}
      [] op = "date" -> {[op |-> op, date_str |-> d] : d \in ParseDates}
      [] op = "normalize" ->
           {[op |-> op, variant |-> v, items |-> x, from |-> Jan01, to |-> Jan31] :
               v \in {"reddit", "x"}, x \in RawLists}

(***************************************************************************)
(* The clock.  It advances by one hour or by one hour less than the        *)
(* preference TTL, so that ages just below, at and above every TTL occur.  *)
(***************************************************************************)
LongStep == MODEL_CACHE_TTL_DAYS * 24 - 1
Advances(t) == (t \div LongStep) + (t % LongStep)

(***************************************************************************)
(* History of the preference calls, kept to state what "the last set for   *)
(* id" was.  For each provider: last/isSet, the value of the latest set    *)
(* call for it; cleared, whether clear_cache ran after that call; faults,  *)
(* whether that call or a later set call met a filesystem failure or       *)
(* raised; staleSet, whether a later set call found the file expired.      *)
(***************************************************************************)
NoHist == [last |-> "", isSet |-> FALSE, cleared |-> FALSE, faults |-> FALSE,
           staleSet |-> FALSE]

Fresh(f, t) == Exists(f) /\ t - f.mtime < MODEL_CACHE_TTL_DAYS * 24

HistAfterSet(h, f, t, provider, model, rfault, wfault, r) ==
    LET failed == rfault # "none" \/ wfault # "none" \/ r.status # "ok"
    IN  [p \in Providers |->
            IF p = provider
            THEN [last |-> model, isSet |-> TRUE, cleared |-> FALSE,
                  faults |-> failed, staleSet |-> FALSE]
            ELSE [h[p] EXCEPT !.faults = @ \/ failed,
                              !.staleSet = @ \/ ~Fresh(f, t)]]

HistAfterClear(h) == [p \in Providers |-> [h[p] EXCEPT !.cleared = TRUE]]

(***************************************************************************)
(* Initial states: the clock at 0, the cache directory either missing or   *)
(* present, and in it possibly files this library did not write.           *)
(***************************************************************************)
InitCommon ==
    /\ now = 0
    /\ call = [op |-> "init"]
    /\ ret = RetPending
    /\ hist = [p \in Providers |-> NoHist]

Init ==
    /\ InitCommon
    /\ dirExists \in BOOLEAN
    /\ files \in [FileNames -> {AbsentFile, ForeignFile}]
    /\ files[MODEL_CACHE_FILE] = AbsentFile
    /\ ~dirExists => \A n \in FileNames : files[n] = AbsentFile

InitPref ==
    /\ InitCommon
    /\ dirExists \in BOOLEAN
    /\ files \in [FileNames -> {AbsentFile, ForeignFile}]
    /\ \A k \in Keys : files[k] = AbsentFile
    /\ ~dirExists => \A n \in FileNames : files[n] = AbsentFile

(***************************************************************************)
(* Actions: one per library call, plus the passing of time.                *)
(***************************************************************************)
TTLs == {0, 1, 2}

Save(k, v, fault) ==
    /\ fault = "mkdir" => ~dirExists
    /\ LET r == save_cache(files, dirExists, k, v, now, fault)
       IN  /\ files' = r.files
           /\ dirExists' = r.dir
           /\ ret' = r.ret
    /\ call' = [op |-> "save", key |-> k, data |-> v, clean |-> fault = "none"]
    /\ UNCHANGED <<now, hist>>

Load(k, ttl, fault) ==
    /\ ret' = load_cache(files[k], ttl, now, fault)
    /\ call' = [op |-> "load", key |-> k, ttl |-> ttl, fault |-> fault,
                clean |-> fault = "none"]
    /\ UNCHANGED <<now, dirExists, files, hist>>

LoadWithAge(k, ttl, fault) ==
    /\ ret' = load_cache_with_age(files[k], ttl, now, fault)
    /\ call' = [op |-> "loadWithAge", key |-> k, ttl |-> ttl, fault |-> fault,
                clean |-> fault = "none"]
    /\ UNCHANGED <<now, dirExists, files, hist>>

IsValid(k, ttl, fault) ==
    /\ ret' = RetVal(is_cache_valid(files[k], ttl, now, fault # "stat"))
    /\ call' = [op |-> "isValid", key |-> k, ttl |-> ttl, fault |-> fault,
                clean |-> fault = "none"]
    /\ UNCHANGED <<now, dirExists, files, hist>>

Clear(failed) ==
    /\ files' = clear_cache(files, dirExists, failed)
    /\ ret' = RetNone
    /\ call' = [op |-> "clear", failed |-> failed]
    /\ hist' = HistAfterClear(hist)
    /\ UNCHANGED <<now, dirExists>>

Tick(d) ==
    /\ Advances(now) < MaxAdvances
    /\ now' = now + d
    /\ call' = [op |-> "tick", d |-> d]
    /\ ret' = RetNone
    /\ UNCHANGED <<dirExists, files, hist>>

Get(p, fault) ==
    /\ ret' = get_cached_model(files[MODEL_CACHE_FILE], p, now, fault)
    /\ call' = [op |-> "get", id |-> p, clean |-> fault = "none"]
    /\ UNCHANGED <<now, dirExists, files, hist>>

Set(p, m, rfault, wfault) ==
    /\ wfault = "mkdir" => ~dirExists
    /\ LET f == files[MODEL_CACHE_FILE]
           r == set_cached_model(f, dirExists, p, m, now, rfault, wfault)
       IN  /\ files' = [files EXCEPT ![MODEL_CACHE_FILE] = r.file]
           /\ dirExists' = r.dir
           /\ ret' = r.ret
           /\ hist' = HistAfterSet(hist, f, now, p, m, rfault, wfault, r.ret)
           /\ call' = [op |-> "set", id |-> p, value |-> m,
                       clean |-> rfault = "none" /\ wfault = "none"]
    /\ UNCHANGED now

Next ==
    \/ \E k \in Keys, v \in Payloads, fault \in SaveFaults : Save(k, v, fault)
    \/ \E k \in Keys, ttl \in TTLs, fault \in ReadFaults : Load(k, ttl, fault)
    \/ \E k \in Keys, ttl \in TTLs, fault \in AgeFaults : LoadWithAge(k, ttl, fault)
    \/ \E k \in Keys, ttl \in TTLs, fault \in StatFaults : IsValid(k, ttl, fault)
    \/ \E failed \in SUBSET Keys : Clear(failed)
    \/ \E d \in {1} : Tick(d)

Spec == Init /\ [][Next]_vars

NextPref ==
    \/ \E p \in Identifiers, fault \in ReadFaults : Get(p, fault)
    \/ \E p \in Providers, m \in Models, rfault \in ReadFaults, wfault \in SaveFaults :
          Set(p, m, rfault, wfault)
    \/ \E failed \in SUBSET {MODEL_CACHE_FILE} : Clear(failed)
    \/ \E d \in {1, LongStep} : Tick(d)

SpecPref == InitPref /\ [][NextPref]_vars

(***************************************************************************)
(* The whole cache directory: per-query entries and the preference file    *)
(* side by side.  Writes and reads meet no failure here; unlink may fail   *)
(* on any subset of the files.                                             *)
(***************************************************************************)
InitDir ==
    /\ InitCommon
    /\ dirExists \in BOOLEAN
    /\ files \in [FileNames -> {AbsentFile, ForeignFile}]
    /\ ~dirExists => \A n \in FileNames : files[n] = AbsentFile

NextDir ==
    \/ \E k \in Keys : Save(k, EmptyDict, "none")
    \/ \E k \in Keys, ttl \in TTLs : Load(k, ttl, "none")
    \/ \E p \in Identifiers : Get(p, "none")
    \/ \E p \in Providers : Set(p, "m1", "none", "none")
    \/ \E failed \in SUBSET FileNames : Clear(failed)
    \/ \E d \in {1} : Tick(d)

SpecDir == InitDir /\ [][NextDir]_vars

(***************************************************************************)
(* Two callers of set_cached_model at the same time, on a directory        *)
(* without a preference file.  Here call and ret hold, for each caller,    *)
(* its arguments, its position (pc), its own copy of the map and its       *)
(* result; hist is the sequence of the steps taken, each load with what it *)
(* found: no file, a file within the TTL or an expired one.  No step meets *)
(* a filesystem failure, and the write of the file is one step.            *)
(***************************************************************************)
Writers == {"w1", "w2"}

InitRace ==
    /\ now = 0
    /\ dirExists \in BOOLEAN
    /\ files = [n \in FileNames |-> AbsentFile]
    /\ call \in [Writers -> {[id |-> p, value |-> m, pc |-> "start", cache |-> EmptyMap] :
                               p \in Providers, m \in Models}]
    /\ ret = [w \in Writers |-> RetPending]
    /\ hist = <<>>

Found(f, t) ==
    IF ~Exists(f) THEN "absent" ELSE IF Fresh(f, t) THEN "fresh" ELSE "stale"

\* cache = load_model_cache(); cache[provider] = model; cache['updated_at'] = ..
SetLoad(w) ==
    /\ call[w].pc = "start"
    /\ call' = [call EXCEPT ![w].pc = "loaded",
                            ![w].cache = set_cached_model_load(
                                files[MODEL_CACHE_FILE], call[w].id, call[w].value, now)]
    /\ hist' = Append(hist, [writer |-> w, step |-> "load",
                             found |-> Found(files[MODEL_CACHE_FILE], now)])
    /\ UNCHANGED <<now, dirExists, files, ret>>

\* save_model_cache(cache)
SetSave(w) ==
    /\ call[w].pc = "loaded"
    /\ LET r == set_cached_model_save(files[MODEL_CACHE_FILE], dirExists,
                                      call[w].cache, now)
       IN  /\ files' = [files EXCEPT ![MODEL_CACHE_FILE] = r.file]
           /\ dirExists' = r.dir
           /\ ret' = [ret EXCEPT ![w] = r.ret]
    /\ call' = [call EXCEPT ![w].pc = "done"]
    /\ hist' = Append(hist, [writer |-> w, step |-> "save", found |-> "-"])
    /\ UNCHANGED now

\* time passes between the steps
Elapse(d) ==
    /\ Advances(now) < MaxAdvances
    /\ now' = now + d
    /\ UNCHANGED <<dirExists, files, call, ret, hist>>

NextRace ==
    \/ \E w \in Writers : SetLoad(w)
    \/ \E w \in Writers : SetSave(w)
    \/ \E d \in {1, LongStep} : Elapse(d)

SpecRace == InitRace /\ [][NextRace]_vars

(***************************************************************************)
(* The pure functions: a call is drawn, then evaluated.                    *)
(***************************************************************************)
InitPure ==
    /\ now = 0
    /\ dirExists = FALSE
    /\ files = [n \in FileNames |-> AbsentFile]
    /\ hist = [p \in Providers |-> NoHist]
    /\ \E op \in {"confidence", "filter", "ttl", "range", "window", "recency",
                  "date", "normalize"} : call \in PureCalls(op)
    /\ ret = RetPending

Confidence ==
    /\ call.op = "confidence" /\ ret = RetPending
    /\ ret' = RetVal(get_date_confidence(call.date, call.from, call.to))
    /\ UNCHANGED <<now, dirExists, files, call, hist>>

HardFilter ==
    /\ call.op = "filter" /\ ret = RetPending
    /\ ret' = RetVal(filter_by_date_range(call.items, call.from, call.to,
                                          call.require_date))
    /\ UNCHANGED <<now, dirExists, files, call, hist>>

CalculateTtl ==
    /\ call.op = "ttl" /\ ret = RetPending
    /\ ret' = RetVal(calculate_ttl(call.duration))
    /\ UNCHANGED <<now, dirExists, files, call, hist>>

\* a raised exception carrying a message
RetRaiseMsg(e, message) == [RetRaise(e) EXCEPT !.val = message]

ParseRange ==
    /\ call.op = "range" /\ ret = RetPending
    /\ LET r == parse_range(call.text)
       IN  ret' = IF r.ok THEN RetVal(r.value)
                  ELSE RetRaiseMsg("ValueError", r.message)
    /\ UNCHANGED <<now, dirExists, files, call, hist>>

GetDateRange ==
    /\ call.op = "window" /\ ret = RetPending
    /\ ret' = RetVal(get_date_range(call.duration, call.now))
    /\ UNCHANGED <<now, dirExists, files, call, hist>>

RecencyScore ==
    /\ call.op = "recency" /\ ret = RetPending
    /\ ret' = recency_score(call.date, call.max, call.now)
    /\ UNCHANGED <<now, dirExists, files, call, hist>>

ParseDate ==
    /\ call.op = "date" /\ ret = RetPending
    /\ ret' = parse_date(call.date_str)
    /\ UNCHANGED <<now, dirExists, files, call, hist>>

Normalize ==
    /\ call.op = "normalize" /\ ret = RetPending
    /\ ret' = RetVal(IF call.variant = "reddit"
                     THEN normalize_reddit_items(call.items, call.from, call.to)
                     ELSE normalize_x_items(call.items, call.from, call.to))
    /\ UNCHANGED <<now, dirExists, files, call, hist>>

NextPure ==
    \/ Confidence \/ HardFilter \/ CalculateTtl
    \/ ParseRange \/ GetDateRange \/ RecencyScore \/ Normalize
    \/ ParseDate

SpecPure == InitPure /\ [][NextPure]_vars

(***************************************************************************)
(* Claims about the per-query cache (specification Spec).                  *)
(***************************************************************************)
NoFault(c) == c.clean

\* the step is a load of the key that the step before it saved
LoadRightAfterSave ==
    /\ call.op = "save"
    /\ call'.op = "load"
    /\ call'.key = call.key
    /\ call'.ttl > 0

\* C1 as stated, for calls that meet no filesystem failure: save(k, v)
\* followed at once by load(k, ttl), ttl > 0, returns a value equal to v,
\* for every payload json.dump accepts.
CE_C1 ==
    [][(LoadRightAfterSave /\ NoFault(call) /\ NoFault(call'))
          => ret' = RetVal(call.data)]_vars

\* C1, amended: when neither call meets a filesystem failure, the load that
\* follows save(k, v) returns v as JSON carries it: the same entries, a
\* tuple as a list and the keys of a dict as strings; so exactly v when v
\* is a JSON value.  The latest save is the one that counts.
Thm_C1 ==
    [][(LoadRightAfterSave /\ NoFault(call) /\ NoFault(call'))
          => /\ ret'.status = "ok" /\ ~ret'.none
             /\ ret'.val.map = call.data.map
             /\ ret'.val.ty = (IF call.data.ty = "tuple" THEN "list" ELSE call.data.ty)
             /\ ret'.val.keyty = (IF call.data.ty = "dict" THEN "str" ELSE "index")
             /\ (IsJsonValue(call.data) => ret' = RetVal(call.data))]_vars

\* a load that returned the JSON value written over an earlier file at this hour
Wit_C1 ==
    /\ call.op = "load" /\ NoFault(call) /\ call.ttl > 0
    /\ ret.status = "ok" /\ ~ret.none /\ IsJsonValue(ret.val)
    /\ files[call.key].kind = "json" /\ files[call.key].mtime = now
    /\ now > 0

\* the entry is a miss for this TTL: no file, or as old as the TTL or older
Miss(f, ttl, t) == ~Exists(f) \/ t - f.mtime >= ttl

\* what isValid and load return, given the file and the clock
Inv_C2 ==
    /\ call.op = "isValid" =>
          ret.val = (/\ Exists(files[call.key])
                     /\ call.fault # "stat"
                     /\ now - files[call.key].mtime < call.ttl)
    /\ (call.op = "load" /\ Miss(files[call.key], call.ttl, now)) => ret = RetNone
    /\ (call.op = "loadWithAge" /\ Miss(files[call.key], call.ttl, now)) => ret = RetNone

\* no step but a save of the key ends a miss
Step_C2 ==
    \A k \in Keys, ttl \in TTLs :
        (Miss(files[k], ttl, now) /\ ~(call'.op = "save" /\ call'.key = k))
            => Miss(files'[k], ttl, now')

\* C2: isValid is true exactly when the file exists, can be stat'ed and is
\* younger than the TTL; load returns absent whenever isValid is false (an
\* age equal to the TTL included, whatever the content); and a miss stays a
\* miss until the next save of the key.
Thm_C2 == []Inv_C2 /\ [][Step_C2]_vars

\* a load of a complete JSON document whose age equals the TTL: a miss
Wit_C2 ==
    /\ call.op = "load" /\ call.ttl > 0
    /\ files[call.key].kind = "json"
    /\ now - files[call.key].mtime = call.ttl
    /\ ret = RetNone

\* C6 as stated: save returns normally on every filesystem failure.
CE_C6 == call.op = "save" => ret.status = "ok"

\* C7 as stated: load and loadWithAge always return, and return absent when
\* the file is missing, cannot be stat'ed or opened, or does not decode.
CE_C7 ==
    call.op \in {"load", "loadWithAge"} =>
        /\ ret.status = "ok"
        /\ (\/ ~Exists(files[call.key])
            \/ call.fault \in {"stat", "open"}
            \/ files[call.key].kind \in {"truncated", "badbytes"}) => ret = RetNone

(***************************************************************************)
(* Claims about the preference cache (specification SpecPref).             *)
(***************************************************************************)
PrefFile == files[MODEL_CACHE_FILE]

\* the entries of the map in the file, none when it holds no document
Entries(f) == IF f.kind = "json" THEN f.data.map ELSE EmptyMap

\* the step is a set call that met no filesystem failure
CleanSet == call'.op = "set" /\ call'.clean

\* every identifier but id and updated_at keeps its value
OthersKept(id, before, after) ==
    \A b \in DOMAIN Entries(before) \ {id, "updated_at"} :
        b \in DOMAIN Entries(after) /\ Entries(after)[b] = Entries(before)[b]

\* C8 as stated: set(id, value) leaves every other identifier's value in
\* the file, whatever the age of the file.
CE_C8 == [][CleanSet => OthersKept(call'.id, PrefFile, PrefFile')]_vars

\* C8, amended: a set call that meets no filesystem failure keeps every
\* other identifier's value when the file is younger than the 7-day TTL;
\* when the file is 7 days old or older (or missing) it starts from an empty
\* map, so the file then holds id and updated_at only.
Thm_C8 ==
    [][CleanSet =>
          /\ (PrefFile.kind = "json" /\ Fresh(PrefFile, now))
                => /\ OthersKept(call'.id, PrefFile, PrefFile')
                   /\ DOMAIN Entries(PrefFile') =
                         DOMAIN Entries(PrefFile) \cup {call'.id, "updated_at"}
          /\ ~Fresh(PrefFile, now)
                => DOMAIN Entries(PrefFile') = {call'.id, "updated_at"}
          /\ (PrefFile.kind # "badbytes" \/ ~Fresh(PrefFile, now))
                => /\ PrefFile'.kind = "json"
                   /\ Entries(PrefFile')[call'.id] = call'.value
                   /\ Entries(PrefFile')["updated_at"] = isoformat(now)]_vars

\* a set call on an expired file has dropped the other provider's value
Wit_C8 ==
    /\ call.op = "set" /\ call.clean
    /\ DOMAIN Entries(PrefFile) = {call.id, "updated_at"}
    /\ \E b \in Providers \ {call.id} :
          hist[b].isSet /\ ~hist[b].cleared /\ ~hist[b].faults /\ hist[b].staleSet

\* what is known of the identifier a get asked for
Known(id) == IF id \in Providers THEN hist[id] ELSE NoHist

\* C9 as stated, for calls that meet no filesystem failure: get(id) returns
\* the value of the last set for id while the file is younger than 7 days
\* and was not cleared, and absent for an identifier that was never set.
CE_C9 ==
    (call.op = "get" /\ NoFault(call) /\ ret.status = "ok") =>
        LET h == Known(call.id)
        IN  /\ (h.isSet /\ ~h.cleared /\ ~h.faults /\ Fresh(PrefFile, now))
                  => ret = RetVal(h.last)
            /\ ~h.isSet => ret = RetNone

\* C9, amended: for a provider id (any identifier but "updated_at"), get(id)
\* returns the value of the last set for id provided that call and every
\* later set met no filesystem failure, every later set found the file
\* younger than 7 days, the file is younger than 7 days and was not cleared
\* and the get meets no filesystem failure; get(id) never returns a value
\* for a provider that was never set, and get("updated_at") returns the
\* time of the last write.
Inv_C9 ==
    call.op = "get" =>
        /\ call.id \in Providers =>
              LET h == hist[call.id]
              IN  /\ (/\ h.isSet /\ ~h.cleared /\ ~h.faults /\ ~h.staleSet
                      /\ Fresh(PrefFile, now) /\ NoFault(call))
                        => ret = RetVal(h.last)
                  /\ ~h.isSet => ret.none
        /\ (call.id = "updated_at" /\ ret.status = "ok" /\ ~ret.none)
              => ret.val = isoformat(PrefFile.mtime)

\* a get that returned the value set before another provider was set
Wit_C9 ==
    /\ call.op = "get" /\ call.id \in Providers /\ NoFault(call)
    /\ ret.status = "ok" /\ ~ret.none
    /\ ret.val = hist[call.id].last
    /\ \E b \in Providers \ {call.id} : hist[b].isSet /\ ~hist[b].faults
    /\ PrefFile.mtime > 0

(***************************************************************************)
(* Claims about the pure functions (specification SpecPure).               *)
(***************************************************************************)
Returned(op) == call.op = op /\ ret.status = "ok"

\* the text before the first "T" (the whole text when it has none)
FirstT(s) ==
    IF \E i \in 1..Len(s) : s[i] = "T"
    THEN CHOOSE i \in 1..Len(s) : s[i] = "T" /\ \A j \in 1..(i - 1) : s[j] # "T"
    ELSE Len(s) + 1
DatePortion(s) == SubSeq(s, 1, FirstT(s) - 1)
HasTime(s) == FirstT(s) <= Len(s)

\* a <= b on texts
StrLe(a, b) == a = b \/ StrLt(a, b)

\* C3 as stated, for a date given as a date-only text: confidence is 'high'
\* when the date lies within [from, to] and 'low' when it lies outside or
\* is absent, the boundaries being date-only texts or datetime texts that
\* are reduced to the part before the first 'T'.
CE_C3 ==
    Returned("confidence") =>
        IF ~call.date.present THEN ret.val = "low"
        ELSE LET dt == strptime_ymd(call.date.text)
                 start == strptime_ymd(DatePortion(call.from))
                 end == strptime_ymd(DatePortion(call.to))
             IN  (dt.ok /\ start.ok /\ end.ok) =>
                    ret.val = (IF DateLe(start, dt) /\ DateLe(dt, end)
                               THEN "high" ELSE "low")

\* C4: the hard filter applied to its own output returns that output.
Inv_C4 ==
    Returned("filter") =>
        filter_by_date_range(ret.val, call.from, call.to, call.require_date) = ret.val

\* a filter call that kept an item of the window and dropped the other,
\* an older one
Wit_C4 ==
    /\ Returned("filter")
    /\ Len(call.items) = 2 /\ Len(ret.val) = 1
    /\ ret.val[1].date = Text(Jan15 \o Noon)
    /\ \E i \in 1..2 : call.items[i].date = Text(Dec31)

\* the items the hard filter is to keep
KeptByClaim(item, from_date, to_date, require_date) ==
    IF ~item.date.present THEN ~require_date
    ELSE /\ StrLe(DatePortion(from_date), DatePortion(item.date.text))
         /\ StrLe(DatePortion(item.date.text), DatePortion(to_date))

IsPadded(s) == Len(s) = 10 /\ strptime_ymd(s).ok

\* C5: the hard filter returns, in input order, exactly the undated items
\* (when require_date is false) and the dated items whose date-only portion
\* lies between the date-only portions of from and to, both included; for
\* zero-padded dates that is the order of the calendar.
Inv_C5 ==
    Returned("filter") =>
        LET Keep(item) == KeptByClaim(item, call.from, call.to, call.require_date)
        IN  /\ ret.val = SelectSeq(call.items, Keep)
            /\ \A i \in 1..Len(ret.val) :
                  /\ ret.val[i].date.present \/ ~call.require_date
                  /\ ret.val[i].date.present =>
                        ~StrLt(DatePortion(ret.val[i].date.text), DatePortion(call.from))
                        /\ ~StrLt(DatePortion(call.to), DatePortion(ret.val[i].date.text))
            /\ \A i \in 1..Len(call.items) :
                  LET d == DatePortion(call.items[i].date.text)
                      f == DatePortion(call.from)
                      t == DatePortion(call.to)
                  IN  (call.items[i].date.present /\ IsPadded(d) /\ IsPadded(f) /\ IsPadded(t))
                        => ((\E j \in 1..Len(ret.val) : ret.val[j] = call.items[i])
                              <=> /\ DateLe(strptime_ymd(f), strptime_ymd(d))
                                  /\ DateLe(strptime_ymd(d), strptime_ymd(t)))

\* a filter call with datetime boundaries that kept a datetime item of the
\* last day and an undated item, and dropped a later one
Wit_C5 ==
    /\ Returned("filter") /\ ~call.require_date
    /\ HasTime(call.from) /\ HasTime(call.to)
    /\ Len(call.items) = 2 /\ Len(ret.val) = 1
    /\ \E i \in 1..2 : call.items[i].date = Text(Feb01)
    /\ ~ret.val[1].date.present

\* the step table: <<hours of the window, minutes of TTL>>
WindowSeconds(d) == IF d.kind = "int" THEN d.n * 24 * 60 * 60 ELSE d.n
TtlTable == <<<<2, 30>>, <<6, 60>>, <<24, 120>>, <<3 * 24, 360>>, <<7 * 24, 720>>>>
TableTtl(secs) ==
    IF \E i \in 1..Len(TtlTable) : secs <= TtlTable[i][1] * 3600
    THEN TtlTable[CHOOSE i \in 1..Len(TtlTable) :
                     /\ secs <= TtlTable[i][1] * 3600
                     /\ \A j \in 1..(i - 1) : secs > TtlTable[j][1] * 3600][2]
    ELSE 24 * 60

\* C10: the TTL is the step table on the window length, the boundary values
\* in the lower bucket, an int counted as days, and never smaller for a
\* longer window.  Hours are written in minutes: 0.5 h = 30.
Inv_C10 ==
    Returned("ttl") =>
        /\ ret.val = TableTtl(WindowSeconds(call.duration))
        /\ \A i \in 1..Len(TtlTable) :
              WindowSeconds(call.duration) = TtlTable[i][1] * 3600
                  => ret.val = TtlTable[i][2]
        /\ \A d \in Durations :
              WindowSeconds(d) >= WindowSeconds(call.duration)
                  => calculate_ttl(d) >= ret.val

\* the TTL of a window of exactly 2 hours is 30 minutes
Wit_C10 ==
    /\ Returned("ttl")
    /\ call.duration = Timedelta(2 * 3600)
    /\ ret.val = 30

(***************************************************************************)
(* Claims about parse_range (specification SpecPure).                      *)
(***************************************************************************)
\* the unit tokens and what one unit is worth, in seconds
RangeUnitTable ==
    {[token |-> u, per |-> 3600] : u \in HourUnits}
    \cup {[token |-> u, per |-> 86400] : u \in DayUnits}
    \cup {[token |-> u, per |-> 7 * 86400] : u \in WeekUnits}
    \cup {[token |-> u, per |-> 30 * 86400] : u \in MonthUnits}

Blank(t, a, b) == \A x \in a..b : t[x] \in Whitespace

\* the durations, in seconds, that a text denotes when read as whitespace,
\* an unsigned integer, whitespace, a unit token in any case, whitespace
Readings(t) ==
    UNION {UNION {UNION {UNION {
        {NumVal(SubSeq(t, i + 1, j)) * u.per :
            u \in {u \in RangeUnitTable : lower(SubSeq(t, k + 1, l)) = u.token}}
        : l \in {l \in k..Len(t) : Blank(t, l + 1, Len(t))}}
        : k \in {k \in j..Len(t) : Blank(t, j + 1, k)}}
        : j \in {j \in (i + 1)..Len(t) : AllDigits(SubSeq(t, i + 1, j))}}
        : i \in {i \in 0..Len(t) : Blank(t, 1, i)}}

\* t occurs in msg
Contains(msg, t) ==
    \E i \in 0..(Len(msg) - Len(t)) : SubSeq(msg, i + 1, i + Len(t)) = t

RangeDone == call.op = "range" /\ ret # RetPending

BoundaryDay(s) ==
    LET c == strptime_ymd(DatePortion(s)) IN DaysFromCivil(c.y, c.m, c.d)
BoundarySec(s) ==
    LET p == FirstT(s)
    IN  NumVal(SubSeq(s, p + 1, p + 2)) * 3600 + NumVal(SubSeq(s, p + 4, p + 5)) * 60
        + NumVal(SubSeq(s, p + 7, p + 8))

\* C12: the two boundaries of a window have the same precision: both carry
\* a time of day when the duration is below one day, both are calendar
\* dates when it is one day or more; to is the clock reading and from is
\* the clock reading less the duration.
Inv_C12 ==
    Returned("window") =>
        LET from == ret.val[1]
            to == ret.val[2]
            secs == WindowSeconds(call.duration)
            t == call.now
        IN  /\ HasTime(from) <=> HasTime(to)
            /\ HasTime(to) <=> secs < 86400
            /\ BoundaryDay(to) = t.day
            /\ BoundaryDay(from) = t.day + ((t.sec - secs) \div 86400)
            /\ HasTime(to) =>
                 /\ BoundarySec(to) = t.sec
                 /\ (t.day - BoundaryDay(from)) * 86400 + t.sec - BoundarySec(from)
                    = secs
            /\ ~HasTime(to) => IsPadded(from) /\ IsPadded(to)

\* a window of exactly one day came back as two calendar dates
Wit_C12 ==
    /\ Returned("window")
    /\ call.duration = Timedelta(86400)
    /\ call.now = DateTime(2026, 3, 1, 0, 30, 0, 0)
    /\ ret.val = <<IsoDate(2026, 2, 28), IsoDate(2026, 3, 1)>>

(***************************************************************************)
(* Claims about recency_score (specification SpecPure).                    *)
(***************************************************************************)
\* the text is a date that parse_date reads
Parsed(d) == parse_date(d).status = "ok" /\ ~parse_date(d).none

\* the age of the item at the clock reading t, in seconds (rounded down)
\* and microseconds
AgeSecs(d, t) ==
    LET p == parse_date(d).val
    IN  (t.day - p.day) * 86400 + t.sec - p.sec - (IF t.micro < p.micro THEN 1 ELSE 0)
AgeMicro(d, t) == (t.micro - parse_date(d).val.micro) % 1000000

\* floor(100 * (1 - age / max)) in exact arithmetic, for 0 <= age < max
ExactScore(secs, micro, max) ==
    (100 * (max - secs) - ((100 * micro + 999999) \div 1000000)) \div max

\* the age of d is at least the age of c
NotYounger(d, c, t) ==
    \/ AgeSecs(d, t) > AgeSecs(c, t)
    \/ AgeSecs(d, t) = AgeSecs(c, t) /\ AgeMicro(d, t) >= AgeMicro(c, t)

\* C13 as stated: the score is an integer in 0..100 for every input; 0 for
\* a date that is absent or cannot be parsed, 100 for a future date, 0 for
\* an age of max_duration or more, floor(100 * (1 - age / max_duration))
\* otherwise; and an item that is not younger never scores higher.
CE_C13 ==
    call.op = "recency" /\ ret # RetPending =>
        LET max == WindowSeconds(call.max)
            secs == AgeSecs(call.date, call.now)
            micro == AgeMicro(call.date, call.now)
        IN  /\ ret.status = "ok" /\ ~ret.none /\ ret.val \in 0..100
            /\ ~Parsed(call.date) => ret.val = 0
            /\ Parsed(call.date) =>
                 /\ ret.val = IF secs < 0 THEN 100
                              ELSE IF secs >= max THEN 0
                              ELSE ExactScore(secs, micro, max)
                 /\ \A d \in RecencyDates :
                        Parsed(d) /\ NotYounger(d, call.date, call.now) =>
                            recency_score(d, call.max, call.now).val <= ret.val

(***************************************************************************)
(* Claims about is_valid_url and the normalizers (specification SpecPure). *)
(***************************************************************************)
\* the host of a URL: its netloc after the last "@", without the port, or
\* the text between square brackets
HostOf(url) ==
    LET netloc == urlparse(url).netloc
        ats == {i \in 1..Len(netloc) : netloc[i] = "@"}
        hostport == IF ats = {} THEN netloc
                    ELSE SubSeq(netloc, (CHOOSE i \in ats : \A j \in ats : j <= i) + 1,
                                Len(netloc))
        colon == Find(hostport, {":"})
    IN  IF hostport # <<>> /\ hostport[1] = "["
        THEN SubSeq(hostport, 2, Find(hostport, {"]"}) - 1)
        ELSE SubSeq(hostport, 1, IF colon = 0 THEN Len(hostport) ELSE colon - 1)

\* the URL is a text whose scheme is http or https and whose host is not
\* empty
HttpWithHost(url) ==
    /\ url.present
    /\ urlparse(url.text).scheme \in {Http, Https}
    /\ HostOf(url.text) # <<>>

\* C14 as stated: the output holds exactly the records whose url passes
\* is_valid_url, in the order of the input; is_valid_url is true only for
\* an http or https URL with a host, so that every url of the output is
\* one; and a comment url that fails the check is replaced by the empty
\* string while the comment stays.
CE_C14 ==
    Returned("normalize") =>
        LET kept == SelectSeq(call.items, LAMBDA item : is_valid_url(item.url))
        IN  /\ Len(ret.val) = Len(kept)
            /\ \A i \in 1..Len(kept) :
                 /\ ret.val[i].id = kept[i].id
                 /\ ret.val[i].url = kept[i].url
                 /\ HttpWithHost(ret.val[i].url)
                 /\ call.variant = "reddit" =>
                      /\ Len(ret.val[i].top_comments) = Len(kept[i].top_comments)
                      /\ \A j \in 1..Len(kept[i].top_comments) :
                           ret.val[i].top_comments[j].url =
                               IF is_valid_url(kept[i].top_comments[j].url)
                               THEN kept[i].top_comments[j].url ELSE Text(<<>>)
            /\ \A i \in 1..Len(call.items) :
                 is_valid_url(call.items[i].url) => HttpWithHost(call.items[i].url)

(***************************************************************************)
(* Claims about parse_date (specification SpecPure).                       *)
(***************************************************************************)
\* the first format of parse_date that reads the text s, or 0
FirstFormat(s) ==
    LET hits == {fmt \in Formats : strptime(s, fmt).ok}
    IN  IF hits = {} THEN 0 ELSE CHOOSE fmt \in hits : \A g \in hits : fmt <= g

\* the instant that a text read by a format denotes, in UTC: its clock
\* reading less its UTC offset
InstantUTC(s) ==
    LET dt == strptime(s, FirstFormat(s))
    IN  MinusSeconds([day |-> dt.day, sec |-> dt.sec, micro |-> dt.micro], dt.offset)

\* a text that float() reads as a finite number
IsNumber(s) == float(s).kind = "num"

\* C17 as stated: parse_date gives the instant of its input in UTC.  A
\* datetime text with a UTC offset gives its clock reading less the offset,
\* an epoch number gives that many seconds after 1970-01-01T00:00:00Z, a
\* text with "Z" or without a zone gives its clock reading, and None, the
\* empty text and a text that is neither a number nor of one of the
\* formats give None.
CE_C17 ==
    (call.op = "date" /\ ret # RetPending) =>
        LET s == call.date_str.text
        IN  IF ~call.date_str.present \/ s = <<>> THEN ret = RetNone
            ELSE IF IsNumber(s) /\ fromtimestamp(float(s)).status = "ok"
            THEN ret = RetVal(Epoch(float(s)))
            ELSE IF FirstFormat(s) # 0 THEN ret = RetVal(InstantUTC(s))
            ELSE ret = RetNone

(***************************************************************************)
(* Claims about clear_cache (specification SpecDir).                       *)
(***************************************************************************)
\* instants at and after t: t itself, an hour on, and either side of the
\* preference TTL
Later(t) == {t + d : d \in {0, 1, LongStep, LongStep + 1, LongStep + 2}}

\* with the files fs, load_cache gives None for every key, TTL and later
\* instant, and get_cached_model gives None for every identifier, whatever
\* the read meets
AllAbsent(fs, t) ==
    /\ \A k \in Keys, ttl \in TTLs, u \in Later(t), fault \in ReadFaults :
          load_cache(fs[k], ttl, u, fault) = RetNone
    /\ \A id \in Identifiers, u \in Later(t), fault \in ReadFaults :
          get_cached_model(fs[MODEL_CACHE_FILE], id, u, fault) = RetNone

\* C15: clear_cache removes the per-query files and the preference file
\* alike.  A clear_cache call in which no unlink failed leaves no file, so
\* that load_cache and get_cached_model give None for every key, TTL and
\* identifier; a file stays removed until save_cache writes that key or
\* set_cached_model writes the preference file; and without the directory
\* clear_cache changes no file and returns normally.
Thm_C15 ==
    [][ /\ (call'.op = "clear" /\ dirExists /\ call'.failed = {}) =>
              /\ \A n \in FileNames : ~Exists(files'[n])
              /\ AllAbsent(files', now')
              /\ ret' = RetNone
        /\ (call'.op = "clear" /\ ~dirExists) =>
              /\ files' = files /\ dirExists' = dirExists
              /\ ret' = RetNone
        /\ \A k \in Keys :
              (~Exists(files[k]) /\ Exists(files'[k])) =>
                  (call'.op = "save" /\ call'.key = k)
        /\ (~Exists(files[MODEL_CACHE_FILE]) /\ Exists(files'[MODEL_CACHE_FILE])) =>
              call'.op = "set"
        /\ (call'.op = "load" /\ ~Exists(files[call'.key])) => ret' = RetNone
        /\ (call'.op = "get" /\ ~Exists(files[MODEL_CACHE_FILE])) => ret' = RetNone
      ]_vars

\* clear_cache has just removed, without a failure, a directory that held
\* an entry of every key and a preference file written by set_cached_model
Wit_C15 ==
    /\ call.op = "clear" /\ call.failed = {} /\ dirExists
    /\ \A n \in FileNames : ~Exists(files[n])
    /\ \E p \in Providers : hist[p].isSet /\ hist[p].cleared /\ ~hist[p].faults

(***************************************************************************)
(* Claims about callers of set_cached_model that run at the same time      *)
(* (specification SpecRace).                                               *)
(***************************************************************************)
Other(w) == CHOOSE v \in Writers : v # w
BothDone == \A w \in Writers : call[w].pc = "done"
\* the steps taken, in order
Order == [i \in 1..Len(hist) |-> <<hist[i].writer, hist[i].step>>]
\* one caller ran from start to end before the other started
Sequential ==
    \E w \in Writers :
        Order = << <<w, "load">>, <<w, "save">>, <<Other(w), "load">>, <<Other(w), "save">> >>
\* no load found an expired file
NoStale == \A i \in 1..Len(hist) : hist[i].found # "stale"
\* the map in the preference file
StoredMap == files[MODEL_CACHE_FILE].data.map

\* C16: when two set_cached_model calls for different providers have both
\* returned, the file holds the map of the caller that wrote last.  If the
\* calls overlapped (both loads came before both saves) the provider of
\* the other caller is missing from the file: its update is lost.  If one
\* call ran after the other, on a file that did not expire in between,
\* both providers are in the file with the models that were set.
Inv_C16 ==
    BothDone =>
        LET last == hist[Len(hist)].writer
            first == Other(last)
        IN  /\ files[MODEL_CACHE_FILE].kind = "json"
            /\ \A w \in Writers : ret[w] = RetNone
            /\ StoredMap = call[last].cache
            /\ StoredMap[call[last].id] = call[last].value
            /\ call[first].id # call[last].id =>
                 /\ ~Sequential => call[first].id \notin DOMAIN StoredMap
                 /\ (Sequential /\ NoStale) =>
                      /\ call[first].id \in DOMAIN StoredMap
                      /\ StoredMap[call[first].id] = call[first].value

\* both calls have returned, they overlapped, no file had expired, and the
\* provider set by the caller that wrote first is not in the file
Wit_C16 ==
    /\ BothDone /\ ~Sequential /\ NoStale
    /\ call["w1"].id # call["w2"].id
    /\ \E w \in Writers : call[w].id \notin DOMAIN StoredMap

====
